---- MODULE Spec2Model ----
(***************************************************************************)
(* Model of src/deploy/s3.rs: the deploy of a landscape website to an S3   *)
(* bucket.  One deploy run checks the environment, lists the bucket into a *)
(* snapshot (deployed_objects), uploads the files of the local tree with   *)
(* bounded concurrency (upload_files) and finally uploads index.html       *)
(* (upload_index_document).                                                *)
(*                                                                         *)
(* Strings are sequences of one-character strings, so that the string      *)
(* operations of the code (trim_start_matches, starts_with, extension) are *)
(* computed on characters as the code computes them.                       *)
(***************************************************************************)
EXTENDS Integers, Sequences, FiniteSets, TLC

(***************************************************************************)
(* Bounds of the model.                                                    *)
(***************************************************************************)
\* Largest number of files in the local tree besides the top-level index.html,
\* in one deploy run and in two runs in a row.
MaxFiles == 2
MaxFilesTwice == 1
\* Timestamps (local modification times, remote last-modified) are 1..MaxTs.
MaxTs == 2
\* Largest number of I/O failures (list, walk, stat, read, put) in one behaviour.
MaxFaults == 1
\* Largest number of objects the store returns in one page of a listing.
MaxKeys == 2
\* Largest number of listed objects that lack a key or a last_modified.
MaxGaps == 1
\* Number of files of the tree that fills the pool of concurrent uploads.
MaxPoolFiles == 21

(***************************************************************************)
(* Program constants.                                                      *)
(***************************************************************************)
INDEX_DOCUMENT == <<"i","n","d","e","x",".","h","t","m","l">>
LOGOS_PREFIX == <<"l","o","g","o","s","/">>
UPLOAD_FILES_CONCURRENCY == 20
required_env_vars == {"AWS_REGION", "AWS_ACCESS_KEY_ID", "AWS_SECRET_ACCESS_KEY"}

(***************************************************************************)
(* String operations of the Rust standard library, on character sequences. *)
(***************************************************************************)
\* str::starts_with(pat)
starts_with(s, pat) ==
    /\ Len(pat) <= Len(s)
    /\ SubSeq(s, 1, Len(pat)) = pat

Drop(s, n) == SubSeq(s, n + 1, Len(s))

\* str::trim_start_matches(pat): every repeated leading occurrence of pat is
\* removed, not only the first one.
RECURSIVE trim_start_matches(_, _)
trim_start_matches(s, pat) ==
    IF pat # <<>> /\ starts_with(s, pat)
    THEN trim_start_matches(Drop(s, Len(pat)), pat)
    ELSE s

\* The largest i with s[i] = c, or 0.
RECURSIVE LastIndexOf(_, _, _)
LastIndexOf(s, c, i) ==
    IF i = 0 THEN 0
    ELSE IF s[i] = c THEN i ELSE LastIndexOf(s, c, i - 1)

\* Path::file_name of a '/'-separated path: its last component.
file_name_of(s) == Drop(s, LastIndexOf(s, "/", Len(s)))

\* Path::extension: the part of the file name after its last '.', none when
\* the file name has no '.' or only a leading one.  <<>> stands for None.
extension(s) ==
    LET name == file_name_of(s)
        dot  == LastIndexOf(name, ".", Len(name))
    IN  IF dot <= 1 THEN <<>> ELSE Drop(name, dot)

\* The extensions mime_guess knows, among those of the model's files.
KnownExtensions == { <<"j","s">>, <<"s","v","g">>, <<"h","t","m","l">> }

\* mime_guess::from_path(key).first(): defined for a known extension only.
mime_guess_first(key) == extension(key) \in KnownExtensions

\* The essence of the media type mime_guess gives to an extension.
essence_str(ext) ==
    IF ext = <<"j","s">> THEN "text/javascript"
    ELSE IF ext = <<"s","v","g">> THEN "image/svg+xml"
    ELSE "text/html"

\* mime::TEXT_HTML.essence_str()
TEXT_HTML == "text/html"

(***************************************************************************)
(* The local tree.  A local file is named by its path relative to the      *)
(* landscape directory, a sequence of components.                          *)
(***************************************************************************)
Slash == <<"/">>

\* The landscape directory as given on the command line.
Roots == { <<"s">>, <<"s","/">> }

IndexFile   == << INDEX_DOCUMENT >>
NoExtFile   == << <<"b">> >>
HiddenFile  == << <<".","h">> >>
NestedHiddenFile == << <<"d">>, <<".","c",".","j","s">> >>
SubIndexFile == << <<"s">>, INDEX_DOCUMENT >>
LogoFile    == << <<"l","o","g","o","s">>, <<"l",".","s","v","g">> >>

\* The files of which the trees of a deploy run are made.
Specimens == << NoExtFile, HiddenFile, NestedHiddenFile, SubIndexFile, LogoFile >>
CandidateSet == { Specimens[i] : i \in 1..Len(Specimens) }

\* The files of the tree that fills the pool: a.js, b.js, ...
Letters == << "a", "b", "c", "d", "e", "f", "g", "h", "i", "j", "k", "l", "m",
              "n", "o", "p", "q", "r", "s", "t", "u", "v", "w", "x", "y", "z" >>
PoolFiles == [ i \in 1..MaxPoolFiles |-> << << Letters[i], ".", "j", "s" >> >> ]
PoolTree == { PoolFiles[i] : i \in 1..MaxPoolFiles }

\* The files a tree may hold besides the top-level index.html, in walk order.
Candidates == Specimens \o PoolFiles

\* The components of a relative path joined by '/'.
RECURSIVE JoinRel(_)
JoinRel(rel) ==
    IF Len(rel) = 1 THEN rel[1]
    ELSE rel[1] \o Slash \o JoinRel(Tail(rel))

\* PathBuf::join as WalkDir uses it: a separator is added unless the directory
\* already ends with one.
path_join(dir, rel) ==
    IF dir # <<>> /\ dir[Len(dir)] = "/" THEN dir \o JoinRel(rel)
    ELSE dir \o Slash \o JoinRel(rel)

\* A file's name begins with '.'.
IsHidden(rel) == rel[Len(rel)][1] = "."

\* The object key of a walk entry's path (upload_files, "Prepare object key").
ObjectKey(dir, path) ==
    trim_start_matches(trim_start_matches(path, dir), Slash)

(***************************************************************************)
(* The directory walk (WalkDir::new(landscape_dir)): the root directory,   *)
(* then every file of the tree, each nested file after its directory.      *)
(***************************************************************************)
\* The candidates the walk of a tree looks at: those after the specimens
\* only when the tree has files besides them.
WalkOrder(files) == IF files \subseteq CandidateSet THEN Specimens ELSE Candidates

RECURSIVE WalkFrom(_, _)
WalkFrom(i, files) ==
    IF i > Len(WalkOrder(files)) THEN <<>>
    ELSE LET f == WalkOrder(files)[i]
             d == IF Len(f) > 1
                  THEN << [kind |-> "dir", rel |-> SubSeq(f, 1, Len(f) - 1)] >>
                  ELSE <<>>
         IN  (IF f \in files THEN d \o << [kind |-> "file", rel |-> f] >> ELSE <<>>)
             \o WalkFrom(i + 1, files)

Walk(files) ==
    << [kind |-> "dir", rel |-> <<>>], [kind |-> "file", rel |-> IndexFile] >>
    \o WalkFrom(1, files)

\* entry.path() of a walk entry, displayed.
EntryPath(dir, e) == IF e.rel = <<>> THEN dir ELSE path_join(dir, e.rel)

\* The keys an object of the bucket may have for a tree: index.html, the keys
\* the deploy computes and the relative paths of the local files.
RelevantKeys(dir, files) ==
    {INDEX_DOCUMENT}
    \cup { ObjectKey(dir, path_join(dir, f)) : f \in files }
    \cup { JoinRel(f) : f \in files }

Times == 1..MaxTs

\* object.last_modified of a listed object that carries none.
NoLastModified == 0

\* object.key of a listed object that carries none.
NoKey == <<>>

\* The local modification time of a file nobody has read yet.
Unread == 0

VARIABLES
    env,                \* the environment variables: name -> "set", "empty", "unset"
    landscape_dir,      \* args.landscape_dir
    tree,               \* the files of the local tree besides index.html
    walk,               \* the entries WalkDir yields for the tree, in its order
    mtime,              \* local modification time of each file, once read
    bucket,             \* the remote store: key -> last-modified
    clock,              \* the store's time: the last-modified of an object put
    pc,                 \* the phase of deploy
    error,              \* the error deploy returned, "none" while it has none
    continuation_token, \* get_deployed_objects: the page to ask for next, 0 = None
    deployed_objects,   \* the snapshot: key -> last-modified
    next,               \* upload_files: the next walk entry to start a task for
    results,            \* upload_files: per walk entry, its task's state and result
    errors,             \* upload_files: the walk entries listed in the aggregate error
    index,              \* upload_index_document: its state and result
    faults,             \* I/O failures so far
    run,                \* 1 in the first deploy run, 2 in the one that follows it
    first,              \* how the first run ended and the puts it issued
    gaps,               \* the objects the store lists without key, without last_modified
    list_requests,      \* get_deployed_objects: the list requests sent in the run
    put_requests        \* the put requests sent in the run: key and content type

vars == << env, landscape_dir, tree, walk, mtime, bucket, clock, pc, error,
           continuation_token, deployed_objects, next, results, errors, index,
           faults, run, first, gaps, list_requests,
           put_requests >>

inputs == << env, landscape_dir, tree, walk, clock, gaps >>

LocalFiles == {IndexFile} \cup tree

\* The key upload_files computes for walk entry i.
KeyOf(i) == ObjectKey(landscape_dir, EntryPath(landscape_dir, walk[i]))

NewTask == [st |-> "new", stat |-> FALSE]

SkipStates  == {"notfile", "index", "hidden", "logos", "uptodate"}
ErrStates   == {"walkerr", "staterr", "readerr", "mimeerr", "puterr"}
PutStates   == {"inflight", "uploaded", "puterr"}

\* The task returned Ok(()), returned Err, has issued its put request.
IsOk(r)    == r.st \in SkipStates \cup {"uploaded"}
IsErr(r)   == r.st \in ErrStates
IsDone(r)  == IsOk(r) \/ IsErr(r)
PutIssued(r) == r.st \in PutStates

(***************************************************************************)
(* The initial states: any environment with at most one variable missing,  *)
(* any landscape directory and tree, any bucket over the relevant keys.    *)
(* The modification time of a local file is drawn when the deploy first    *)
(* reads it (fs::metadata) and is the same at every later read: until then *)
(* it is Unread, and the run is the same for every value it may have.      *)
(***************************************************************************)
Environments ==
    { e \in [required_env_vars -> {"set", "empty", "unset"}] :
        Cardinality({ v \in required_env_vars : e[v] # "set" }) <= 1 }

TreesOf(n) == { t \in SUBSET CandidateSet : Cardinality(t) <= n }
Trees == TreesOf(MaxFiles)

\* The buckets a deploy may find: any set of objects over the relevant keys,
\* all put at one earlier time t.  The deploy compares the last-modified of a
\* key with the modification time of that key's own file only, and the
\* modification times of the files are independent of each other.
Buckets(dir, files) ==
    UNION { [K -> {t}] : K \in SUBSET RelevantKeys(dir, files), t \in Times }

\* The objects the store may list with a field missing, at most n of them.
GapsOf(keys, n) ==
    { g \in [key : SUBSET keys, last_modified : SUBSET keys] :
        Cardinality(g.key) + Cardinality(g.last_modified) <= n }

InitWith(envs, trees, clocks, n) ==
    /\ env \in envs
    /\ landscape_dir \in Roots
    /\ tree \in trees
    /\ walk = Walk(tree)
    /\ mtime = [f \in LocalFiles |-> Unread]
    /\ bucket \in Buckets(landscape_dir, tree)
    /\ clock \in clocks
    /\ gaps \in GapsOf(DOMAIN bucket, n)
    /\ list_requests = 0
    /\ put_requests = {}
    /\ pc = "Start"
    /\ error = "none"
    /\ continuation_token = 0
    /\ deployed_objects = << >>
    /\ next = 1
    /\ results = [i \in 1..Len(walk) |-> NewTask]
    /\ errors = {}
    /\ index = NewTask
    /\ faults = 0
    /\ run = 1
    /\ first = [pc |-> "none", puts |-> 0]

\* One deploy run.  The last-modified the store gives to the objects put in
\* the run is read by no one in the run: the store's time is the latest.
Init == InitWith(Environments, Trees, {MaxTs}, 0)

\* Two deploy runs in a row, with the environment variables set: the store's
\* time may be earlier than the modification time of a local file.
InitTwice ==
    InitWith({[v \in required_env_vars |-> "set"]}, TreesOf(MaxFilesTwice), Times, 0)

\* One deploy run of a tree with more files to upload than the pool of
\* concurrent uploads takes, against an empty bucket.
InitPool ==
    /\ env = [v \in required_env_vars |-> "set"]
    /\ landscape_dir = <<"s">>
    /\ tree = PoolTree
    /\ walk = Walk(tree)
    /\ mtime = [f \in LocalFiles |-> Unread]
    /\ bucket = << >>
    /\ clock = MaxTs
    /\ gaps = [key |-> {}, last_modified |-> {}]
    /\ list_requests = 0
    /\ put_requests = {}
    /\ pc = "Start"
    /\ error = "none"
    /\ continuation_token = 0
    /\ deployed_objects = << >>
    /\ next = 1
    /\ results = [i \in 1..Len(walk) |-> NewTask]
    /\ errors = {}
    /\ index = NewTask
    /\ faults = 0
    /\ run = 1
    /\ first = [pc |-> "none", puts |-> 0]

\* One deploy run against a store whose listing may lack fields of an object.
InitListing ==
    InitWith({[v \in required_env_vars |-> "set"]}, Trees, {MaxTs}, MaxGaps)

\* The environment may make one more I/O operation fail.
MayFail == faults < MaxFaults

(***************************************************************************)
(* check_env_vars, and deploy up to the listing.                           *)
(***************************************************************************)
\* Only a variable that is not set is refused.
check_env_vars_unset_only == \A v \in required_env_vars : env[v] # "unset"

\* Ok when env::var(var) is Ok and not empty for every required variable.
check_env_vars == \A v \in required_env_vars : env[v] = "set"

CheckEnv ==
    /\ pc = "Start"
    /\ IF check_env_vars
       THEN /\ pc' = "Listing"
            /\ error' = error
       ELSE /\ pc' = "Aborted"
            /\ error' = "env"
    /\ UNCHANGED << inputs, mtime, bucket, continuation_token, deployed_objects,
                    next, results, errors, index, faults, run, first, list_requests,
                    put_requests >>

(***************************************************************************)
(* get_deployed_objects: one iteration of its loop is one list request.    *)
(***************************************************************************)
\* The bucket's objects in the order the store lists them.
RECURSIVE SeqOf(_)
SeqOf(S) ==
    IF S = {} THEN <<>>
    ELSE LET k == CHOOSE x \in S : TRUE IN << k >> \o SeqOf(S \ {k})

ListedKeys == SeqOf(DOMAIN bucket)

\* The object the store lists for key k: its key and last_modified, each
\* missing when the store omits it.
ListedObject(k) ==
    [ key           |-> IF k \in gaps.key THEN NoKey ELSE k,
      last_modified |-> IF k \in gaps.last_modified THEN NoLastModified
                        ELSE bucket[k] ]

\* The pages of the listing.
NumPages ==
    IF Len(ListedKeys) = 0 THEN 1
    ELSE (Len(ListedKeys) + MaxKeys - 1) \div MaxKeys

\* The store's response carries no continuation token: the next request asks
\* for the first page again.
ListObjectsV2_no_token(t) ==
    LET to == IF MaxKeys < Len(ListedKeys) THEN MaxKeys ELSE Len(ListedKeys)
    IN  [ contents     |-> [ j \in 1..to |-> ListedObject(ListedKeys[j]) ],
          is_truncated |-> to < Len(ListedKeys),
          next_continuation_token |-> 0 ]

\* The response to the list request with continuation token t: the contents
\* of the page, is_truncated and next_continuation_token.
ListObjectsV2(t) ==
    LET from == t * MaxKeys + 1
        to   == IF (t + 1) * MaxKeys < Len(ListedKeys)
                THEN (t + 1) * MaxKeys ELSE Len(ListedKeys)
    IN  [ contents     |-> [ j \in 1..(to - from + 1) |->
                               ListedObject(ListedKeys[from + j - 1]) ],
          is_truncated |-> to < Len(ListedKeys),
          next_continuation_token |-> t + 1 ]

\* The snapshot holds the objects of the last page only.
InsertPage_last_page(snapshot, contents) ==
    [ k \in { contents[j].key : j \in DOMAIN contents } |->
        contents[CHOOSE j \in DOMAIN contents : contents[j].key = k].last_modified ]

\* The snapshot after the objects of a page are inserted: those that carry
\* both a key and a last_modified.
InsertPage(snapshot, contents) ==
    LET kept == { j \in DOMAIN contents :
                    /\ contents[j].key # NoKey
                    /\ contents[j].last_modified # NoLastModified }
        keys == { contents[j].key : j \in kept }
    IN  [ k \in DOMAIN snapshot \cup keys |->
            IF k \in keys
            THEN contents[CHOOSE j \in kept : contents[j].key = k].last_modified
            ELSE snapshot[k] ]

\* A failed list request is sent again.
ListFail_retry ==
    /\ pc = "Listing"
    /\ MayFail
    /\ faults' = faults + 1
    /\ list_requests' = list_requests + 1
    /\ UNCHANGED << inputs, mtime, bucket, pc, error, continuation_token,
                    deployed_objects, next, results, errors, index, run, first,
                    put_requests >>

ListPage ==
    /\ pc = "Listing"
    /\ list_requests' = list_requests + 1
    /\ LET output == ListObjectsV2(continuation_token)
       IN  /\ deployed_objects' = InsertPage(deployed_objects, output.contents)
           /\ IF output.is_truncated
              THEN /\ continuation_token' = output.next_continuation_token
                   /\ pc' = pc
              ELSE /\ continuation_token' = continuation_token
                   /\ pc' = "Uploading"
    /\ UNCHANGED << inputs, mtime, bucket, error, next, results, errors, index,
                    faults, run, first,
                    put_requests >>

\* request.send().await? fails: the error is returned to deploy at once.
ListFail ==
    /\ pc = "Listing"
    /\ MayFail
    /\ faults' = faults + 1
    /\ list_requests' = list_requests + 1
    /\ pc' = "Aborted"
    /\ error' = "list"
    /\ UNCHANGED << inputs, mtime, bucket, continuation_token, deployed_objects,
                    next, results, errors, index, run, first,
                    put_requests >>

(***************************************************************************)
(* upload_files: the task of one walk entry.  A task runs from its start   *)
(* to the sending of its put request in one step (StartTask) and ends when *)
(* the put request returns (PutDone); a task that skips its file or fails  *)
(* before the put ends in its first step.                                  *)
(***************************************************************************)
\* The index document is not recognised.
IsIndexDocument_never(key) == FALSE

\* key == INDEX_DOCUMENT
IsIndexDocument(key) == key = INDEX_DOCUMENT

\* key.starts_with('.')
StartsWithDot(key) == starts_with(key, <<".">>)

\* A deployed logo is not recognised.
IsLogo_never(key) == FALSE

\* key.starts_with(LOGOS_PREFIX)
IsLogo(key) == starts_with(key, LOGOS_PREFIX)

\* The remote copy counts as up to date only when it is strictly newer.
UpToDate_strict(remote_ts, local_ts) == remote_ts > local_ts

\* remote_ts >= &local_ts
UpToDate(remote_ts, local_ts) == remote_ts >= local_ts

\* The state of the task of entry e after its first step: fault is the I/O
\* operation the environment makes fail ("none", "walk", "stat", "read") and
\* local_ts the modification time fs::metadata returns.
TaskOutcome(e, snapshot, fault, local_ts) ==
    LET key == ObjectKey(landscape_dir, EntryPath(landscape_dir, e))
        deployed == key \in DOMAIN snapshot
    IN  IF fault = "walk" THEN [st |-> "walkerr", stat |-> FALSE]
        ELSE IF e.kind # "file" THEN [st |-> "notfile", stat |-> FALSE]
        ELSE IF IsIndexDocument(key) THEN [st |-> "index", stat |-> FALSE]
        ELSE IF StartsWithDot(key) THEN [st |-> "hidden", stat |-> FALSE]
        ELSE IF deployed /\ IsLogo(key) THEN [st |-> "logos", stat |-> FALSE]
        ELSE IF deployed /\ fault = "stat" THEN [st |-> "staterr", stat |-> TRUE]
        ELSE IF deployed /\ UpToDate(snapshot[key], local_ts)
             THEN [st |-> "uptodate", stat |-> TRUE]
        ELSE IF fault = "read" THEN [st |-> "readerr", stat |-> deployed]
        ELSE IF ~mime_guess_first(key) THEN [st |-> "mimeerr", stat |-> deployed]
        ELSE [st |-> "inflight", stat |-> deployed]

\* The tasks buffer_unordered holds: started and not yet completed.
InFlight == { i \in DOMAIN results : results[i].st = "inflight" }

\* The pool has no limit.
CanStart_unbounded == next <= Len(walk)

\* buffer_unordered starts the task of the next entry while fewer than
\* UPLOAD_FILES_CONCURRENCY tasks are in flight.
CanStart ==
    /\ next <= Len(walk)
    /\ Cardinality(InFlight) < UPLOAD_FILES_CONCURRENCY

\* The I/O failures the task of entry e may meet.  A walk error stands in the
\* place of a file's entry: the directory could not hand the entry out.
FaultsAt(e) ==
    IF e.kind = "file" THEN {"none", "walk", "stat", "read"} ELSE {"none"}

\* The modification times fs::metadata may return for file f: the one read
\* before, any when the file was never read.
ModifiedOf(f) == IF mtime[f] = Unread THEN Times ELSE {mtime[f]}

StartTask ==
    /\ pc = "Uploading"
    /\ CanStart
    /\ LET e == walk[next]
           f == IF e.kind = "file" THEN e.rel ELSE IndexFile
       IN  \E fault \in FaultsAt(e), local_ts \in ModifiedOf(f) :
             LET r == TaskOutcome(e, deployed_objects, fault, local_ts)
                 failed == r.st \in {"walkerr", "staterr", "readerr"}
                 read == r.stat /\ r.st # "staterr"
             IN  /\ fault # "none" => MayFail /\ failed
                 /\ ~read => local_ts = CHOOSE t \in ModifiedOf(f) : TRUE
                 /\ results' = [results EXCEPT ![next] = r]
                 /\ mtime' = IF read THEN [mtime EXCEPT ![f] = local_ts] ELSE mtime
                 /\ faults' = IF failed THEN faults + 1 ELSE faults
                 /\ put_requests' =
                      IF r.st = "inflight"
                      THEN put_requests \cup
                           { [key |-> KeyOf(next),
                              content_type |-> essence_str(extension(KeyOf(next)))] }
                      ELSE put_requests
    /\ next' = next + 1
    /\ UNCHANGED << inputs, bucket, pc, error, continuation_token,
                    deployed_objects, errors, index, run, first, list_requests >>

\* The put leaves the bucket with the object put only.
PutObject_replace(b, key) == [ k \in {key} |-> clock ]

\* The bucket after a put of key succeeded.
PutObject(b, key) ==
    [ k \in DOMAIN b \cup {key} |-> IF k = key THEN clock ELSE b[k] ]

\* The put that succeeds is entered in the snapshot.
PutDone_updates_snapshot(i) ==
    /\ pc = "Uploading"
    /\ results[i].st = "inflight"
    /\ \/ /\ results' = [results EXCEPT ![i].st = "uploaded"]
          /\ bucket' = PutObject(bucket, KeyOf(i))
          /\ deployed_objects' = PutObject(deployed_objects, KeyOf(i))
          /\ faults' = faults
       \/ /\ MayFail
          /\ results' = [results EXCEPT ![i].st = "puterr"]
          /\ bucket' = bucket
          /\ deployed_objects' = deployed_objects
          /\ faults' = faults + 1
    /\ UNCHANGED << inputs, mtime, pc, error, continuation_token, next, errors,
                    index, run, first, list_requests, put_requests >>

\* The put request of task i returns: Ok, or Err with the key as context.
PutDone(i) ==
    /\ pc = "Uploading"
    /\ results[i].st = "inflight"
    /\ \/ /\ results' = [results EXCEPT ![i].st = "uploaded"]
          /\ bucket' = PutObject(bucket, KeyOf(i))
          /\ faults' = faults
       \/ /\ MayFail
          /\ results' = [results EXCEPT ![i].st = "puterr"]
          /\ bucket' = bucket
          /\ faults' = faults + 1
    /\ UNCHANGED << inputs, mtime, pc, error, continuation_token,
                    deployed_objects, next, errors, index, run, first, list_requests,
                    put_requests >>

(***************************************************************************)
(* upload_files: "Process results", once collect() has every result.       *)
(***************************************************************************)
\* The pass stops collecting at the first error.
Collected_fail_fast ==
    \/ next > Len(walk) /\ \A i \in DOMAIN results : IsDone(results[i])
    \/ \E i \in DOMAIN results : IsErr(results[i])

\* collect() returns: the walk is exhausted and every task has completed.
Collected == next > Len(walk) /\ \A i \in DOMAIN results : IsDone(results[i])

\* The results the loop over results appends to errors.
AggregateErrors(res) == { i \in DOMAIN res : IsErr(res[i]) }

\* The errors of the tasks are dropped.
errors_found_never(errs) == FALSE

\* errors_found
errors_found(errs) == errs # {}

\* An error that names no file.
NoContext == <<>>

\* What the error of a task that ended in state st names, as format!("{err:?}")
\* prints it: the put error carries the context "error uploading file {key}",
\* the content-type error is made with the key, the walk error is walkdir's
\* and names the path of the entry, the errors of fs::metadata and of
\* ByteStream::from_path are returned by ? as they are and name no file.
error_context(st, path, key) ==
    IF st \in {"puterr", "mimeerr"} THEN key
    ELSE IF st = "walkerr" THEN path
    ELSE NoContext

\* The lines of the aggregate error, one per failed task.
ErrorLines ==
    { [entry |-> i,
       names |-> error_context(results[i].st, EntryPath(landscape_dir, walk[i]), KeyOf(i))] :
      i \in errors }

ProcessResults ==
    /\ pc = "Uploading"
    /\ Collected
    /\ errors' = AggregateErrors(results)
    /\ IF errors_found(errors')
       THEN /\ pc' = "Aborted"
            /\ error' = "upload"
       ELSE /\ pc' = "PublishingEntry"
            /\ error' = error
    /\ UNCHANGED << inputs, mtime, bucket, continuation_token, deployed_objects,
                    next, results, index, faults, run, first, list_requests,
                    put_requests >>

(***************************************************************************)
(* upload_index_document.                                                  *)
(***************************************************************************)
\* The publisher sends its put whatever the snapshot holds.
IndexOutcome_always_put(snapshot, fault, local_ts) ==
    IF fault = "read" THEN [st |-> "readerr", stat |-> FALSE]
    ELSE [st |-> "inflight", stat |-> FALSE]

\* The state of upload_index_document when it returns or sends its put:
\* the body is read first, then the remote copy is compared.
IndexOutcome(snapshot, fault, local_ts) ==
    LET deployed == INDEX_DOCUMENT \in DOMAIN snapshot
    IN  IF fault = "read" THEN [st |-> "readerr", stat |-> FALSE]
        ELSE IF deployed /\ fault = "stat" THEN [st |-> "staterr", stat |-> TRUE]
        ELSE IF deployed /\ UpToDate(snapshot[INDEX_DOCUMENT], local_ts)
             THEN [st |-> "uptodate", stat |-> TRUE]
        ELSE [st |-> "inflight", stat |-> deployed]

UploadIndex ==
    /\ pc = "PublishingEntry"
    /\ index.st = "new"
    /\ \E fault \in {"none", "stat", "read"}, local_ts \in ModifiedOf(IndexFile) :
         LET r == IndexOutcome(deployed_objects, fault, local_ts)
             failed == IsErr(r)
             read == r.stat /\ r.st # "staterr"
         IN  /\ fault # "none" => MayFail /\ failed
             /\ ~read => local_ts = CHOOSE t \in ModifiedOf(IndexFile) : TRUE
             /\ index' = r
             /\ mtime' = IF read THEN [mtime EXCEPT ![IndexFile] = local_ts] ELSE mtime
             /\ faults' = IF failed THEN faults + 1 ELSE faults
             /\ pc' = IF failed THEN "Aborted" ELSE IF r.st = "uptodate" THEN "Done" ELSE pc
             /\ error' = IF failed THEN "index" ELSE error
             /\ put_requests' =
                  IF r.st = "inflight"
                  THEN put_requests \cup
                       { [key |-> INDEX_DOCUMENT, content_type |-> TEXT_HTML] }
                  ELSE put_requests
    /\ UNCHANGED << inputs, bucket, continuation_token, deployed_objects, next,
                    results, errors, run, first, list_requests >>

\* The error of the put of index.html is dropped.
IndexPutDone_error_ignored ==
    /\ pc = "PublishingEntry"
    /\ index.st = "inflight"
    /\ \/ /\ index' = [index EXCEPT !.st = "uploaded"]
          /\ bucket' = PutObject(bucket, INDEX_DOCUMENT)
          /\ faults' = faults
       \/ /\ MayFail
          /\ index' = [index EXCEPT !.st = "puterr"]
          /\ bucket' = bucket
          /\ faults' = faults + 1
    /\ pc' = "Done"
    /\ UNCHANGED << inputs, mtime, error, continuation_token, deployed_objects,
                    next, results, errors, run, first, list_requests,
                    put_requests >>

IndexPutDone ==
    /\ pc = "PublishingEntry"
    /\ index.st = "inflight"
    /\ \/ /\ index' = [index EXCEPT !.st = "uploaded"]
          /\ bucket' = PutObject(bucket, INDEX_DOCUMENT)
          /\ pc' = "Done"
          /\ error' = error
          /\ faults' = faults
       \/ /\ MayFail
          /\ index' = [index EXCEPT !.st = "puterr"]
          /\ bucket' = bucket
          /\ pc' = "Aborted"
          /\ error' = "index"
          /\ faults' = faults + 1
    /\ UNCHANGED << inputs, mtime, continuation_token, deployed_objects, next,
                    results, errors, run, first, list_requests,
                    put_requests >>

(***************************************************************************)
(* A second deploy run of the same tree against the bucket the first run   *)
(* left, with no other change in between.                                  *)
(***************************************************************************)
Redeploy ==
    /\ run = 1
    /\ pc \in {"Done", "Aborted"}
    /\ run' = 2
    /\ first' = [pc |-> pc,
                 puts |-> Cardinality({ i \in DOMAIN results : PutIssued(results[i]) })
                          + (IF PutIssued(index) THEN 1 ELSE 0)]
    /\ pc' = "Start"
    /\ error' = "none"
    /\ continuation_token' = 0
    /\ deployed_objects' = << >>
    /\ next' = 1
    /\ results' = [i \in DOMAIN results |-> NewTask]
    /\ errors' = {}
    /\ index' = NewTask
    /\ list_requests' = 0
    /\ put_requests' = {}
    /\ UNCHANGED << inputs, mtime, bucket, faults >>

Next ==
    \/ CheckEnv
    \/ ListPage
    \/ ListFail
    \/ StartTask
    \/ \E i \in DOMAIN results : PutDone(i)
    \/ ProcessResults
    \/ UploadIndex
    \/ IndexPutDone

Spec == Init /\ [][Next]_vars

NextTwice == Next \/ Redeploy

SpecTwice == InitTwice /\ [][NextTwice]_vars

SpecListing == InitListing /\ [][Next]_vars

\* A deploy run in which every request sent returns and every task that can
\* take a step takes it: the executor polls deploy's future to completion.
\* A failed request is the store's doing and is not owed to the run.
Progress ==
    \/ CheckEnv
    \/ ListPage
    \/ ProcessResults
    \/ UploadIndex
    \/ IndexPutDone

\* A task of the pool that can take a step: the next one to start, or one
\* whose put returns.
TaskStep ==
    \/ StartTask
    \/ \E i \in DOMAIN results : PutDone(i)

\* ENABLED <<TaskStep>>_vars: a task can start, or a put is pending.
TaskStepEnabled == pc = "Uploading" /\ (CanStart \/ InFlight # {})

\* WF_vars(TaskStep), with ENABLED <<TaskStep>>_vars written out.
TaskStepFair ==
    \/ []<>(~TaskStepEnabled)
    \/ []<><<TaskStep>>_vars

Fairness == WF_vars(Progress) /\ TaskStepFair

SpecLive == Init /\ [][Next]_vars /\ Fairness

\* The run of the tree that fills the pool.  Its files are alike (each is
\* absent from the bucket and uploaded), so the tasks in flight are told
\* apart by their number only: of the behaviours that differ in the order in
\* which the puts return, the one where they return in the order they were
\* sent stands for all.
PutDoneOldest ==
    \E i \in InFlight :
        /\ \A j \in InFlight : i <= j
        /\ PutDone(i)

NextPool ==
    \/ CheckEnv
    \/ ListPage
    \/ ListFail
    \/ StartTask
    \/ PutDoneOldest
    \/ ProcessResults
    \/ UploadIndex
    \/ IndexPutDone

SpecPool == InitPool /\ [][NextPool]_vars

(***************************************************************************)
(* Vocabulary of the properties.                                           *)
(***************************************************************************)
TypeOK ==
    /\ env \in Environments
    /\ landscape_dir \in Roots
    /\ tree \in Trees \cup {PoolTree}
    /\ walk = Walk(tree)
    /\ mtime \in [LocalFiles -> {Unread} \cup Times]
    /\ DOMAIN bucket \subseteq RelevantKeys(landscape_dir, tree)
    /\ bucket \in [DOMAIN bucket -> Times]
    /\ clock \in Times
    /\ DOMAIN deployed_objects \subseteq DOMAIN bucket
    /\ pc \in {"Start", "Listing", "Uploading", "PublishingEntry", "Done", "Aborted"}
    /\ error \in {"none", "env", "list", "upload", "index"}
    /\ next \in 1..(Len(walk) + 1)
    /\ \A i \in DOMAIN results :
         results[i].st \in {"new"} \cup SkipStates \cup ErrStates \cup PutStates
    /\ errors \subseteq DOMAIN results
    /\ faults \in 0..MaxFaults
    /\ run \in 1..2
    /\ gaps \in GapsOf(DOMAIN bucket, MaxGaps)
    /\ list_requests \in 0..(NumPages + MaxFaults)
    /\ \A r \in put_requests :
         r.content_type \in {"text/javascript", "image/svg+xml", "text/html"}

\* The walk entries that are regular files, and those that are not the
\* top-level index.html.
FileEntries == { i \in DOMAIN results : walk[i].kind = "file" }
OtherFileEntries == { i \in FileEntries : walk[i].rel # IndexFile }

\* The task of entry i was started with the entry read (no walk error).
Started(i) == results[i].st \notin {"new", "walkerr"}

\* The task returned Ok(()) without a put request.
Skipped(r) == r.st \in SkipStates

\* The general pass is over and returned Ok(()).
PassSucceeded == pc \in {"PublishingEntry", "Done"} \/ error = "index"

\* The run has ended.
Ended == pc \in {"Done", "Aborted"}

\* The key of a local file as the deploy computes it, and as its path
\* relative to the landscape directory.
ComputedKey(f) == ObjectKey(landscape_dir, path_join(landscape_dir, f))
RelativeKey(f) == JoinRel(f)

(***************************************************************************)
(* C1.  The put of index.html is issued only after every task of the       *)
(* general pass has completed and only if none of them returned an error:  *)
(* while some task is not started, is in flight or has failed, no put of   *)
(* index.html has been issued in the run.                                  *)
(***************************************************************************)
C1_IndexPutAfterCleanPass ==
    PutIssued(index) =>
        /\ next > Len(walk)
        /\ \A i \in DOMAIN results : IsOk(results[i])

C1_Witness ==
    /\ PutIssued(index)
    /\ \E i \in DOMAIN results : results[i].st = "uploaded"

(***************************************************************************)
(* C2.  When the put of index.html is issued, every regular local file     *)
(* that is neither the entry document nor hidden has its object key in the *)
(* bucket.  (The claim as stated; the deploy falsifies it for a file whose *)
(* computed key is not its relative path, see C6.)                         *)
(***************************************************************************)
C2_AssetsPresentAtIndexPut ==
    PutIssued(index) =>
        \A f \in tree : ~IsHidden(f) => ComputedKey(f) \in DOMAIN bucket

(***************************************************************************)
(* C3.  As stated: the general pass never issues a put of index.html, the  *)
(* publisher issues at most one, and it issues one in every run whose      *)
(* general pass had no failure and whose snapshot lacks index.html or has  *)
(* it older than the local file.                                           *)
(***************************************************************************)
NoGeneralPutOfIndex ==
    \A i \in DOMAIN results : PutIssued(results[i]) => KeyOf(i) # INDEX_DOCUMENT

IndexStale ==
    \/ INDEX_DOCUMENT \notin DOMAIN deployed_objects
    \/ /\ mtime[IndexFile] # Unread
       /\ deployed_objects[INDEX_DOCUMENT] < mtime[IndexFile]

C3_Original ==
    /\ NoGeneralPutOfIndex
    /\ (Ended /\ PassSucceeded /\ IndexStale) => PutIssued(index)

(***************************************************************************)
(* C3, amended.  The general pass never issues a put of index.html; the    *)
(* publisher issues a put of index.html only from its single task, and it  *)
(* issues one in every run whose general pass had no failure and whose     *)
(* snapshot lacks index.html or has it older than the local file, provided *)
(* the publisher could read the local index.html (its body and, when the   *)
(* key is in the snapshot, its metadata).                                  *)
(***************************************************************************)
C3_IndexOnlyByPublisher ==
    /\ NoGeneralPutOfIndex
    /\ (Ended /\ PassSucceeded /\ IndexStale /\ index.st \notin {"readerr", "staterr"})
           => PutIssued(index)
    /\ PutIssued(index) => PassSucceeded /\ IndexStale

C3_Witness ==
    /\ pc = "Done"
    /\ index.st = "uploaded"
    /\ \E i \in FileEntries : walk[i].rel = IndexFile /\ results[i].st = "index"
    /\ \E i \in FileEntries : results[i].st = "uploaded"

(***************************************************************************)
(* C4.  The general pass does not fail fast: it returns its aggregate      *)
(* error only when every walk entry has been processed to completion, the  *)
(* aggregate lists exactly the entries whose task failed, and the put of   *)
(* index.html is then not issued.                                          *)
(***************************************************************************)
C4_AggregateAfterAll ==
    (pc = "Aborted" /\ error = "upload") =>
        /\ next > Len(walk)
        /\ \A i \in DOMAIN results : IsDone(results[i])
        /\ errors = { i \in DOMAIN results : IsErr(results[i]) }
        /\ errors # {}
        /\ ~PutIssued(index)

C4_Witness ==
    /\ pc = "Aborted"
    /\ error = "upload"
    /\ Cardinality(errors) = 1
    /\ \E j \in errors : \E i \in DOMAIN results :
         /\ results[j].st \in {"walkerr", "staterr", "readerr", "mimeerr"}
         /\ i > j
         /\ results[i].st = "uploaded"

(***************************************************************************)
(* C5.  As stated: for every regular local file whose file name begins     *)
(* with '.', at any depth, the general pass issues no put and records no   *)
(* error.                                                                  *)
(***************************************************************************)
C5_HiddenNeverProcessed ==
    \A i \in FileEntries :
        (Started(i) /\ IsHidden(walk[i].rel)) => Skipped(results[i])

(***************************************************************************)
(* C6.  As stated: the key computed for a file is its path relative to the *)
(* landscape directory, so distinct files have distinct keys and only the  *)
(* top-level index.html has the key index.html.                            *)
(***************************************************************************)
C6_KeyIsRelativePath ==
    /\ \A i \in FileEntries : Started(i) => KeyOf(i) = RelativeKey(walk[i].rel)
    /\ \A i, j \in FileEntries :
         (Started(i) /\ Started(j) /\ i # j) => KeyOf(i) # KeyOf(j)
    /\ \A i \in OtherFileEntries : Started(i) => KeyOf(i) # INDEX_DOCUMENT

(***************************************************************************)
(* C7.  As stated: a regular local file that is not the entry document,    *)
(* whose key does not begin with '.' and is absent from the snapshot, is   *)
(* never skipped: its task issues a put or records an error.               *)
(***************************************************************************)
C7_AbsentKeyIsUploaded ==
    \A i \in OtherFileEntries :
        (/\ Started(i)
         /\ ~StartsWithDot(KeyOf(i))
         /\ KeyOf(i) \notin DOMAIN deployed_objects)
        => ~Skipped(results[i])

\* What the deploy does satisfy: the same for every file whose computed key
\* is not index.html.
C7_ForKeysOtherThanIndex ==
    \A i \in FileEntries :
        (/\ Started(i)
         /\ KeyOf(i) # INDEX_DOCUMENT
         /\ ~StartsWithDot(KeyOf(i))
         /\ KeyOf(i) \notin DOMAIN deployed_objects)
        => /\ ~Skipped(results[i])
           /\ ~results[i].stat

(***************************************************************************)
(* C8.  For every local file whose key begins with logos/ and is in the    *)
(* snapshot, the general pass issues no put, records no error and does not *)
(* read the file's metadata, whatever the two timestamps are.              *)
(***************************************************************************)
C8_DeployedLogoSkipped ==
    \A i \in FileEntries :
        (/\ Started(i)
         /\ starts_with(KeyOf(i), LOGOS_PREFIX)
         /\ KeyOf(i) \in DOMAIN deployed_objects)
        => /\ results[i].st = "logos"
           /\ ~results[i].stat
           /\ run = 1 => mtime[walk[i].rel] = Unread

C8_Witness ==
    \E i \in FileEntries :
        /\ results[i].st = "logos"
        /\ walk[i].rel = LogoFile
        /\ pc = "Done"

(***************************************************************************)
(* C9.  As stated: a regular local file that is not the entry document,    *)
(* not hidden and not under logos/, and whose key is in the snapshot, is   *)
(* skipped if and only if the snapshot's timestamp is greater than or      *)
(* equal to the local modification time (a file whose metadata cannot be   *)
(* read has no local timestamp and is left out).                           *)
(***************************************************************************)
StalenessDecides(i) ==
    LET f == walk[i].rel
        remote_ts == deployed_objects[KeyOf(i)]
    IN  /\ results[i].stat
        /\ mtime[f] # Unread
        /\ Skipped(results[i]) <=> remote_ts >= mtime[f]
        /\ Skipped(results[i]) => results[i].st = "uptodate"

C9_SkippedIffUpToDate ==
    \A i \in OtherFileEntries :
        (/\ Started(i)
         /\ results[i].st # "staterr"
         /\ ~IsHidden(walk[i].rel)
         /\ ~IsLogo(RelativeKey(walk[i].rel))
         /\ KeyOf(i) \in DOMAIN deployed_objects)
        => StalenessDecides(i)

\* What the deploy does satisfy: the same for every file whose computed key
\* is neither index.html, nor begins with '.', nor with logos/.
C9_ForKeysOtherThanIndex ==
    \A i \in FileEntries :
        (/\ Started(i)
         /\ results[i].st # "staterr"
         /\ KeyOf(i) # INDEX_DOCUMENT
         /\ ~StartsWithDot(KeyOf(i))
         /\ ~IsLogo(KeyOf(i))
         /\ KeyOf(i) \in DOMAIN deployed_objects)
        => StalenessDecides(i)

(***************************************************************************)
(* C10.  As stated: in a second run that follows a first run with no local *)
(* and no external change in between, no put request is issued.  This is   *)
(* the claim read in its favour, for a first run that succeeded: a first   *)
(* run that failed leaves its uploads to the second run in any case.       *)
(***************************************************************************)
NoPuts ==
    /\ \A i \in DOMAIN results : ~PutIssued(results[i])
    /\ ~PutIssued(index)

C10_Original == (run = 2 /\ first.pc = "Done") => NoPuts

(***************************************************************************)
(* C10, amended.  In a second run that follows a first run with no local   *)
(* and no external change in between, no put request is issued, provided   *)
(* the first run succeeded and every object of the bucket that is the key  *)
(* of a local file is listed with a last-modified that is not older than   *)
(* that file's modification time.                                          *)
(***************************************************************************)
RemoteNotOlder ==
    \A f \in LocalFiles :
        ComputedKey(f) \in DOMAIN bucket =>
            /\ ComputedKey(f) \in DOMAIN deployed_objects
            /\ mtime[f] <= deployed_objects[ComputedKey(f)]

C10_SecondRunIdle ==
    (run = 2 /\ first.pc = "Done" /\ RemoteNotOlder) => NoPuts

C10_Witness ==
    /\ run = 2
    /\ first.pc = "Done"
    /\ first.puts >= 2
    /\ pc = "Done"
    /\ RemoteNotOlder
    /\ index.st = "uptodate"
    /\ \E i \in FileEntries : results[i].st = "uptodate"

(***************************************************************************)
(* C11.  A list request that fails, on the first page or on a later one,   *)
(* ends the run at once with that error: the request is not sent again     *)
(* (every request sent while the listing goes on has returned a page), no  *)
(* task of the general pass is started on the pages collected so far, and  *)
(* no put request is issued in the run.                                    *)
(***************************************************************************)
C11_ListFailureAborts ==
    /\ pc = "Listing" => list_requests = continuation_token
    /\ error = "list" =>
          /\ pc = "Aborted"
          /\ list_requests = continuation_token + 1
          /\ next = 1
          /\ \A i \in DOMAIN results : results[i] = NewTask
          /\ index = NewTask
          /\ NoPuts

C11_Witness ==
    /\ error = "list"
    /\ continuation_token >= 1
    /\ DOMAIN deployed_objects # {}
    /\ tree # {}

(***************************************************************************)
(* C12.  When the listing has succeeded, the snapshot holds exactly the    *)
(* objects of the bucket, over all the pages of the listing, that the      *)
(* store lists with both a key and a last_modified, each key with its      *)
(* last-modified; the objects listed without one of the two are not in it; *)
(* and the listing has read every page: it goes on while pages remain and  *)
(* ends with as many requests as the listing has pages.                    *)
(***************************************************************************)
\* The objects listed with both fields.
FullyListed == { k \in DOMAIN bucket : k \notin gaps.key \cup gaps.last_modified }

\* The listing has returned and no task of the general pass has started.
ListingJustDone == pc = "Uploading" /\ next = 1

C12_SnapshotIsListing ==
    /\ ListingJustDone =>
          /\ DOMAIN deployed_objects = FullyListed
          /\ \A k \in FullyListed : deployed_objects[k] = bucket[k]
          /\ list_requests = NumPages
    /\ pc = "Listing" =>
          /\ continuation_token < NumPages
          /\ DOMAIN deployed_objects \subseteq FullyListed

C12_Witness ==
    /\ ListingJustDone
    /\ list_requests >= 2
    /\ gaps.key \cup gaps.last_modified # {}
    /\ DOMAIN deployed_objects # {}

(***************************************************************************)
(* C13.  As stated: every error of the aggregate failure of the general    *)
(* pass names the key of the file it belongs to, whatever the failure is   *)
(* (walk, metadata, body read, content type, put).                         *)
(***************************************************************************)
C13_ErrorsNameKey ==
    \A l \in ErrorLines : l.names = KeyOf(l.entry)

\* What the deploy does satisfy: the errors of the content type and of the
\* put name the key.
C13_PutAndMimeErrorsNameKey ==
    \A l \in ErrorLines :
        results[l.entry].st \in {"puterr", "mimeerr"} => l.names = KeyOf(l.entry)

(***************************************************************************)
(* C14.  As stated: once the publisher has run, it has issued a put of     *)
(* index.html, with content type text/html, if and only if index.html is   *)
(* absent from the snapshot or its snapshot timestamp is strictly older    *)
(* than the local modification time; otherwise it has issued no put and    *)
(* has returned success.                                                   *)
(***************************************************************************)
IndexPutRequest == [key |-> INDEX_DOCUMENT, content_type |-> TEXT_HTML]

PublisherRuleHolds ==
    /\ PutIssued(index) <=> IndexStale
    /\ PutIssued(index) <=> IndexPutRequest \in put_requests
    /\ ~IndexStale => index.st = "uptodate" /\ error = "none"

C14_Original == index.st # "new" => PublisherRuleHolds

(***************************************************************************)
(* C14, amended.  The same, provided the publisher could read the local    *)
(* index.html: its body, which it reads before it looks at the snapshot,   *)
(* and its metadata when index.html is in the snapshot.  When one of the   *)
(* two reads fails the publisher issues no put and returns the error, also *)
(* when the remote copy is up to date.                                     *)
(***************************************************************************)
C14_PublisherStaleness ==
    /\ (index.st \notin {"new", "readerr", "staterr"}) => PublisherRuleHolds
    /\ (index.st \in {"readerr", "staterr"}) =>
          /\ IndexPutRequest \notin put_requests
          /\ pc = "Aborted"

C14_Witness ==
    /\ pc = "Done"
    /\ index.st = "uptodate"
    /\ INDEX_DOCUMENT \in DOMAIN deployed_objects
    /\ deployed_objects[INDEX_DOCUMENT] = mtime[IndexFile]

(***************************************************************************)
(* C15.  At every moment of the general pass at most 20 tasks are in       *)
(* flight, however many files the tree has, and the task of the next walk  *)
(* entry is started only when fewer than 20 are in flight.                 *)
(***************************************************************************)
C15_AtMostTwentyInFlight ==
    /\ [](Cardinality(InFlight) <= 20)
    /\ [][next' # next => Cardinality(InFlight) < 20]_vars

C15_Witness ==
    /\ Cardinality(InFlight) = 20
    /\ next <= Len(walk)
    /\ pc = "Uploading"

(***************************************************************************)
(* C16.  No step of a deploy run removes an object from the bucket: every  *)
(* key the bucket holds before a step it holds after it, also in a run     *)
(* whose general pass ends in an aggregate failure after some puts         *)
(* succeeded and in a run whose put of index.html fails.                   *)
(***************************************************************************)
C16_NoObjectRemoved ==
    [][DOMAIN bucket \subseteq DOMAIN bucket']_vars

C16_Witness ==
    /\ pc = "Aborted"
    /\ error = "upload"
    /\ DOMAIN deployed_objects # {}
    /\ DOMAIN deployed_objects \subseteq DOMAIN bucket
    /\ \E i \in FileEntries :
         /\ results[i].st = "uploaded"
         /\ KeyOf(i) \in DOMAIN bucket
         /\ KeyOf(i) \notin DOMAIN deployed_objects

(***************************************************************************)
(* C17.  When one of AWS_REGION, AWS_ACCESS_KEY_ID, AWS_SECRET_ACCESS_KEY  *)
(* is unset or empty, the run fails before any remote request: it sends no *)
(* list request and no put request, and it ends with the environment       *)
(* error.                                                                  *)
(***************************************************************************)
SomeVarMissing == \E v \in required_env_vars : env[v] \in {"unset", "empty"}

C17_MissingVarNoRequest ==
    SomeVarMissing =>
        /\ list_requests = 0
        /\ put_requests = {}
        /\ NoPuts
        /\ deployed_objects = << >>
        /\ pc \in {"Start", "Aborted"}
        /\ pc = "Aborted" => error = "env"

C17_Witness ==
    /\ pc = "Aborted"
    /\ error = "env"
    /\ env["AWS_SECRET_ACCESS_KEY"] = "empty"
    /\ DOMAIN bucket # {}
    /\ tree # {}

(***************************************************************************)
(* C18.  The phase of a run only moves forward along Start, Listing,       *)
(* Uploading, PublishingEntry, Done, one phase at a time; Done is entered  *)
(* only from PublishingEntry with the publisher returned Ok; the run is    *)
(* Aborted exactly when a phase has returned an error; and a run that is   *)
(* Aborted or Done takes no further step: no request is sent and no phase  *)
(* starts.                                                                 *)
(***************************************************************************)
PhaseRank(p) ==
    CASE p = "Start" -> 0
      [] p = "Listing" -> 1
      [] p = "Uploading" -> 2
      [] p = "PublishingEntry" -> 3
      [] p = "Done" -> 4
      [] p = "Aborted" -> 5

PhaseStep ==
    /\ pc \notin {"Done", "Aborted"}
    /\ pc' # "Aborted" =>
          /\ PhaseRank(pc) <= PhaseRank(pc')
          /\ PhaseRank(pc') <= PhaseRank(pc) + 1
    /\ pc' = "Done" =>
          /\ pc = "PublishingEntry"
          /\ index'.st \in {"uptodate", "uploaded"}
    /\ pc' = "PublishingEntry" /\ pc = "Uploading" =>
          \A i \in DOMAIN results : IsOk(results[i])
    /\ pc' = "Uploading" /\ pc = "Listing" => ~ListObjectsV2(continuation_token).is_truncated
    /\ pc' = "Aborted" <=> error' # "none"

C18_PhasesForward == [][PhaseStep]_vars

C18_Witness ==
    /\ pc = "Aborted"
    /\ error = "index"
    /\ index.st = "puterr"
    /\ list_requests >= 2
    /\ \E i \in FileEntries : results[i].st = "uploaded"

(***************************************************************************)
(* C19.  The snapshot does not change once the listing has returned, not   *)
(* even when a put of the same run succeeds; at every moment the decision  *)
(* taken for a walk entry is the one its own key, the snapshot and its own *)
(* file's modification time give, whatever the other tasks have done in    *)
(* the meantime; and the pass fails exactly when some task has failed.  So *)
(* the keys put by the general pass and its success do not depend on the   *)
(* order in which the tasks run and their puts return.                     *)
(***************************************************************************)
\* The put the snapshot and the file's own state ask for.
PutExpected(i) ==
    LET key == KeyOf(i)
        f == walk[i].rel
    IN  /\ walk[i].kind = "file"
        /\ key # INDEX_DOCUMENT
        /\ ~starts_with(key, <<".">>)
        /\ \/ key \notin DOMAIN deployed_objects
           \/ /\ ~starts_with(key, LOGOS_PREFIX)
              /\ deployed_objects[key] < mtime[f]
        /\ extension(key) \in KnownExtensions

DecisionsFromSnapshot ==
    /\ \A i \in DOMAIN results :
         (Started(i) /\ results[i].st \notin {"staterr", "readerr"}) =>
            PutIssued(results[i]) <=> PutExpected(i)
    /\ { r.key : r \in put_requests } \ {INDEX_DOCUMENT}
         = { KeyOf(i) : i \in { j \in DOMAIN results : PutIssued(results[j]) } }
    /\ (pc \in {"PublishingEntry", "Done", "Aborted"} /\ error \notin {"env", "list"}) =>
         (PassSucceeded <=> \A i \in DOMAIN results : IsOk(results[i]))

SnapshotFrozen ==
    pc \notin {"Start", "Listing"} => deployed_objects' = deployed_objects

C19_SnapshotImmutable ==
    /\ []DecisionsFromSnapshot
    /\ [][SnapshotFrozen]_vars

\* Two puts in flight together, the one sent later returned first, its object
\* in the bucket and not in the snapshot.
C19_Witness ==
    \E i, j \in FileEntries :
        /\ i < j
        /\ results[i].st = "inflight"
        /\ results[j].st = "uploaded"
        /\ KeyOf(j) \in DOMAIN bucket
        /\ KeyOf(j) \notin DOMAIN deployed_objects

(***************************************************************************)
(* C20.  Every deploy run, in which every request returns and the listing  *)
(* has finitely many pages each passing its continuation token on,         *)
(* eventually is Done or Aborted; and the listing loop sends one request   *)
(* per page: while it goes on it has sent one request for each page read   *)
(* and fewer requests than the listing has pages, and when it returns it   *)
(* has sent as many requests as there are pages.                           *)
(***************************************************************************)
OneRequestPerPage ==
    /\ pc = "Listing" =>
          /\ list_requests = continuation_token
          /\ list_requests < NumPages
    /\ ListingJustDone => list_requests = NumPages

C20_RunTerminates ==
    /\ <>Ended
    /\ []OneRequestPerPage

C20_Witness ==
    /\ pc = "Done"
    /\ list_requests >= 2
    /\ index.st = "uploaded"
    /\ Cardinality({ i \in FileEntries : results[i].st = "uploaded" }) >= 2

====
